---------------------------- MODULE Spec2Model ----------------------------
(***************************************************************************)
(* Sentinela Corte/Falta: the scheduler of src/main.py (agenda, next-run   *)
(* computation, scheduling loop, manual mode), the report cycle            *)
(* verificar_corte_falta with its four queries and the mail send, and the  *)
(* transaction scope of src/config_bd.py; of src/sentinela_core.py, the    *)
(* sheet names of a workbook and the subject and attachment name of a      *)
(* message.                                                                *)
(*                                                                         *)
(* Time is counted in whole hours since Monday 00:00 of week 0: a datetime *)
(* is an integer t, its date is t \div 24, its weekday (t \div 24) % 7     *)
(* (0 = Monday, as datetime.weekday()) and its time of day t % 24.         *)
(***************************************************************************)
EXTENDS Integers, Sequences, FiniteSets, TLC

VARIABLES
    agenda,      \* the agenda list handed to obter_proximo_horario_agendado
    now,         \* the wall clock, datetime.now()
    pc,          \* position of the process (main / verificar_mudancas_diarias)
    modo,        \* args.modo of the running process
    proxima,     \* proxima_execucao of the loop (Nenhum before it is computed)
    wakeAt,      \* instant at which the pending time.sleep returns, at the earliest
    late,        \* hours elapsed since the process reached its current position
    starts,      \* number of times the script has been started
    cpc,         \* position inside verificar_corte_falta
    df,          \* the four DataFrames of the cycle
    qfalhou,     \* which queries of the cycle failed (executar_consulta_sql's except)
    sess,        \* the transaction scope of the query executed last
    rel,         \* the report of the cycle: excel built, body built
    mail,        \* enviar_email of the cycle: calls, handed to SES, error logged
    log,         \* the log lines of the cycle that matter, in order
    ultimo,      \* the error lines the cycle completed last left in the log file
    hist,        \* the reports delivered: day of the last one, number on that day
    dfsAbas,     \* the keys of dfs left to write, in the order of the dict
    used,        \* the set `used` shared by the calls of safe_sheet_name
    sheet,       \* the last call of safe_sheet_name: argument, result, novelty
    hojeTitulo,  \* the datetime handed to build_subject_corte / build_attachment_name
    is_fechamento, \* their flag
    titulos      \* what the two functions returned

\* the state of sentinela_core.py
coreVars == <<dfsAbas, used, sheet, hojeTitulo, is_fechamento, titulos>>

\* the state of main.py
scriptVars == <<agenda, now, pc, modo, proxima, wakeAt, late, starts,
                cpc, df, qfalhou, sess, rel, mail, log, ultimo, hist>>

vars == <<agenda, now, pc, modo, proxima, wakeAt, late, starts,
          cpc, df, qfalhou, sess, rel, mail, log, ultimo, hist,
          dfsAbas, used, sheet, hojeTitulo, is_fechamento, titulos>>

-----------------------------------------------------------------------------
(* Calendar arithmetic of datetime / timedelta / datetime.combine *)

HoursPerDay == 24
DaysPerWeek == 7
Nenhum == -1

date(t) == t \div HoursPerDay
weekday(t) == date(t) % DaysPerWeek
timeOfDay(t) == t % HoursPerDay
combine(d, horario) == d * HoursPerDay + horario
timedelta(days) == days * HoursPerDay

-----------------------------------------------------------------------------
(* The agenda of the script: weekdays 0..4 at 08:00 *)

HorarioAgenda == 8

\* the agenda with Saturday and Sunday listed too
AgendaTodosOsDias ==
    << [dias |-> <<0, 1, 2, 3, 4, 5, 6>>, horario |-> HorarioAgenda] >>

\* lines 48-50
Agenda == << [dias |-> <<0, 1, 2, 3, 4>>, horario |-> HorarioAgenda] >>

-----------------------------------------------------------------------------
(* obter_proximo_horario_agendado *)

\* the subtraction of line 694 with its operands exchanged
datetime_agendado_troca(agora, dia, horario) ==
    LET dias_ahead == (weekday(agora) - dia) % DaysPerWeek
        data_agendada == agora + timedelta(dias_ahead)
        dt == combine(date(data_agendada), horario)
    IN  IF dt <= agora THEN dt + timedelta(DaysPerWeek) ELSE dt

\* the rollover test written with < instead of <=
datetime_agendado_lt(agora, dia, horario) ==
    LET dias_ahead == (dia - weekday(agora)) % DaysPerWeek
        data_agendada == agora + timedelta(dias_ahead)
        dt == combine(date(data_agendada), horario)
    IN  IF dt < agora THEN dt + timedelta(DaysPerWeek) ELSE dt

\* lines 694-699: the occurrence of (dia, horario) of this week, moved to the
\* next week when it is not after agora
datetime_agendado(agora, dia, horario) ==
    LET dias_ahead == (dia - weekday(agora)) % DaysPerWeek
        data_agendada == agora + timedelta(dias_ahead)
        dt == combine(date(data_agendada), horario)
    IN  IF dt <= agora THEN dt + timedelta(DaysPerWeek) ELSE dt

\* the comparison of line 701 reversed: keeps the latest candidate
menor_execucao_gt(proxima_execucao, dt) ==
    IF proxima_execucao = Nenhum \/ dt > proxima_execucao
    THEN dt ELSE proxima_execucao

\* lines 701-702
menor_execucao(proxima_execucao, dt) ==
    IF proxima_execucao = Nenhum \/ dt < proxima_execucao
    THEN dt ELSE proxima_execucao

\* lines 693-702: the inner loop over the days of one entry, from index i
RECURSIVE percorrer_dias(_, _, _, _, _)
percorrer_dias(agora, dias, horario, i, proxima_execucao) ==
    IF i > Len(dias) THEN proxima_execucao
    ELSE percorrer_dias(agora, dias, horario, i + 1,
            menor_execucao(proxima_execucao,
                           datetime_agendado(agora, dias[i], horario)))

\* lines 689-702: the outer loop over the entries, from index k
RECURSIVE percorrer_agenda(_, _, _, _)
percorrer_agenda(agora, ag, k, proxima_execucao) ==
    IF k > Len(ag) THEN proxima_execucao
    ELSE percorrer_agenda(agora, ag, k + 1,
            percorrer_dias(agora, ag[k].dias, ag[k].horario, 1, proxima_execucao))

\* lines 682-704, agora being the datetime.now() of line 686
obter_proximo_horario_agendado(ag, agora) ==
    percorrer_agenda(agora, ag, 1, Nenhum)

-----------------------------------------------------------------------------
(* Exceptions and the three handlers `except Exception` *)

Excecoes == {"SQLAlchemyError", "OSError", "KeyError", "AttributeError",
             "ClientError", "ExcelError", "HtmlError"}

\* a handler narrowed to database errors
except_so_banco(exc) == exc = "SQLAlchemyError"

\* src/main.py line 77: except Exception
executar_consulta_sql_except(exc) == exc \in Excecoes

\* src/main.py line 572: except Exception
enviar_email_except(exc) == exc \in Excecoes

\* src/main.py line 678: except Exception
verificar_corte_falta_except(exc) == exc \in Excecoes

-----------------------------------------------------------------------------
(* config_bd.session_scope: corpo is what the body of the with block does  *)
(* ("ok" or the exception it raises), commitFalha whether session.commit() *)
(* raises SQLAlchemyError.  The result counts the calls made on the        *)
(* session and names the exception that leaves the scope.                  *)

\* the except clause without its rollback
session_scope_sem_rollback(corpo, commitFalha) ==
    LET exc == IF corpo # "ok" THEN corpo
               ELSE IF commitFalha THEN "SQLAlchemyError" ELSE "nenhuma"
    IN  [corpo    |-> corpo,
         commit   |-> IF corpo = "ok" THEN 1 ELSE 0,
         commitOk |-> corpo = "ok" /\ ~commitFalha,
         rollback |-> 0,
         close    |-> 1,
         exc      |-> exc]

\* session.close() under `else` instead of `finally`
session_scope_close_no_else(corpo, commitFalha) ==
    LET exc == IF corpo # "ok" THEN corpo
               ELSE IF commitFalha THEN "SQLAlchemyError" ELSE "nenhuma"
    IN  [corpo    |-> corpo,
         commit   |-> IF corpo = "ok" THEN 1 ELSE 0,
         commitOk |-> corpo = "ok" /\ ~commitFalha,
         rollback |-> IF exc = "SQLAlchemyError" THEN 1 ELSE 0,
         close    |-> IF exc = "nenhuma" THEN 1 ELSE 0,
         exc      |-> exc]

\* session_scope, src/config_bd.py lines 36-46
session_scope(corpo, commitFalha) ==
    LET \* line 41 runs only when the body (line 40) raised nothing
        commit == IF corpo = "ok" THEN 1 ELSE 0
        \* the exception seen by the except clause of line 42
        exc == IF corpo # "ok" THEN corpo
               ELSE IF commitFalha THEN "SQLAlchemyError" ELSE "nenhuma"
        \* lines 42-44: only SQLAlchemyError is rolled back; it is re-raised
        rollback == IF exc = "SQLAlchemyError" THEN 1 ELSE 0
    IN  [corpo    |-> corpo,
         commit   |-> commit,
         commitOk |-> corpo = "ok" /\ ~commitFalha,
         rollback |-> rollback,
         close    |-> 1,          \* line 46: finally
         exc      |-> exc]

SessaoNenhuma ==
    [corpo |-> "nenhum", commit |-> 0, commitOk |-> FALSE, rollback |-> 0,
     close |-> 0, exc |-> "nenhuma", capturada |-> "ninguem"]

-----------------------------------------------------------------------------
(* DataFrames, by what the cycle reads of them *)

\* "sem_colunas": pd.DataFrame() (line 79); "vazio": columns and no rows
\* (line 74); "zero": rows whose totals are all zero; "mov": rows with
\* movement; "incompleto": rows, an expected column (QT_CORTE, ...) missing
Formas == {"sem_colunas", "vazio", "zero", "mov", "incompleto"}
FormasSinteticas == Formas \ {"sem_colunas"}
FormasAnaliticas == {"vazio", "mov"}

\* DataFrame.empty
empty(forma) == forma \in {"sem_colunas", "vazio"}

NumConsultas == 4
\* 1: sintetico_corte_falta.sql (yesterday), 2: sintetico_corte_falta_mes.sql
\* (the month), 3: analitico_corte_mes.sql, 4: analitico_falta_mes.sql

\* executar_consulta_sql, lines 53-79.  r.corpo: what lines 61-74 do inside
\* the scope ("ok", "OSError" from open/read, "SQLAlchemyError" from
\* execute/fetchall); r.commitFalha; r.forma: the rows the query returns.
executar_consulta_sql(r) ==
    LET s == session_scope(r.corpo, r.commitFalha)
    IN  IF s.exc = "nenhuma"
        THEN [sess |-> s, forma |-> r.forma, falhou |-> FALSE,
              log |-> << >>, exc |-> "nenhuma",
              capturada |-> "ninguem"]
        ELSE IF executar_consulta_sql_except(s.exc)
        THEN [sess |-> s, forma |-> "sem_colunas", falhou |-> TRUE,
              log |-> << "erro_consulta_sql" >>, exc |-> "nenhuma",
              capturada |-> "executar_consulta_sql"]
        ELSE [sess |-> s, forma |-> "sem_colunas", falhou |-> TRUE,
              log |-> << >>, exc |-> s.exc,
              capturada |-> "ninguem"]

-----------------------------------------------------------------------------
(* enviar_email, lines 542-573.  f.dest: EMAIL_DESTINATARIOS ("ok",        *)
(* "ausente": the variable is not set, "vazio": it is set to nothing);     *)
(* f.ses: what SES answers to send_raw_email ("ok" or "erro").             *)

MailNenhum ==
    [chamadas |-> 0, dest |-> "nenhum", ses |-> 0, entregue |-> FALSE,
     falhou |-> FALSE]

enviar_email(f) ==
    LET \* line 547: None.split raises AttributeError
        \* line 567: SES rejects the destination "" and may fail by itself
        exc == IF f.dest = "ausente" THEN "AttributeError"
               ELSE IF f.dest = "vazio" \/ f.ses = "erro" THEN "ClientError"
               ELSE "nenhuma"
        sesCalls == IF f.dest = "ausente" THEN 0 ELSE 1
        capturada == exc # "nenhuma" /\ enviar_email_except(exc)
    IN  [mail |-> [chamadas |-> 1, dest |-> f.dest, ses |-> sesCalls,
                   entregue |-> (exc = "nenhuma"), falhou |-> (exc # "nenhuma")],
         log  |-> IF capturada THEN << "erro_enviar_email" >> ELSE << >>,
         exc  |-> IF capturada THEN "nenhuma" ELSE exc]

-----------------------------------------------------------------------------
(* verificar_corte_falta after its four queries, lines 588-677 *)

RelNenhum == [excel |-> FALSE, corpo |-> FALSE]

\* the test of line 654 with the second `not` forgotten
ha_dados_sem_not(ontem, mes) == ~empty(ontem) \/ empty(mes)

\* line 654
ha_dados(ontem, mes) == ~empty(ontem) \/ ~empty(mes)

\* the totals read with a default for a missing column (.get), no KeyError
analise_sem_keyerror(forma, quando) ==
    IF empty(forma) THEN [exc |-> "nenhuma", log |-> << "nenhum_dado_" \o quando >>]
    ELSE [exc |-> "nenhuma", log |-> << "analise_" \o quando >>]

\* lines 620-634 and 637-651: the totals are read only of a non-empty frame
analise(forma, quando) ==
    IF empty(forma) THEN [exc |-> "nenhuma", log |-> << "nenhum_dado_" \o quando >>]
    ELSE IF forma = "incompleto" THEN [exc |-> "KeyError", log |-> << >>]
    ELSE [exc |-> "nenhuma", log |-> << "analise_" \o quando >>]

\* lines 654-675: build the report and send it, or log that there is nothing
enviar_relatorio(dfs, f) ==
    IF ~ha_dados(dfs[1], dfs[2])
    THEN [exc |-> "nenhuma", rel |-> RelNenhum, mail |-> MailNenhum,
          log |-> << "nenhum_dado_email_nao_enviado" >>]
    ELSE IF f.excel
    THEN [exc |-> "ExcelError", rel |-> RelNenhum, mail |-> MailNenhum,
          log |-> << >>]
    ELSE IF f.corpo
    THEN [exc |-> "HtmlError", rel |-> [excel |-> TRUE, corpo |-> FALSE],
          mail |-> MailNenhum, log |-> << >>]
    ELSE LET e == enviar_email(f)
         IN  [exc |-> e.exc, rel |-> [excel |-> TRUE, corpo |-> TRUE],
              mail |-> e.mail,
              log |-> IF e.exc = "nenhuma"
                      THEN e.log \o << "email_enviado_com_sucesso" >>  \* line 673
                      ELSE e.log]

\* lines 588-677: the exception that reaches the except clause of line 678,
\* if any, and what was done before it
processar_dados(dfs, f) ==
    LET a1 == analise(dfs[1], "ontem")
        a2 == analise(dfs[2], "mes")
        e  == enviar_relatorio(dfs, f)
    IN  IF a1.exc # "nenhuma"
        THEN [exc |-> a1.exc, rel |-> RelNenhum, mail |-> MailNenhum, log |-> a1.log]
        ELSE IF a2.exc # "nenhuma"
        THEN [exc |-> a2.exc, rel |-> RelNenhum, mail |-> MailNenhum,
              log |-> a1.log \o a2.log]
        ELSE IF e.exc # "nenhuma"
        THEN [exc |-> e.exc, rel |-> e.rel, mail |-> e.mail,
              log |-> a1.log \o a2.log \o e.log]
        ELSE [exc |-> "nenhuma", rel |-> e.rel, mail |-> e.mail,
              log |-> a1.log \o a2.log \o e.log \o << "concluida_com_sucesso" >>]

-----------------------------------------------------------------------------
(* Bounds and the inputs drawn by the actions *)

MaxDias == 2        \* days the clock runs
MaxLate == 1        \* hours a step of the loop or a wake-up may be late
MaxStarts == 2      \* times the script is started
MaxEntradas == 2    \* entries of an agenda handed to the next-run computation

Horizonte == timedelta(MaxDias)

\* what a synthetic query (1, 2) and an analytic query (3, 4) may do
ResultadosOk(formas) ==
    {[corpo |-> "ok", commitFalha |-> FALSE, forma |-> x] : x \in formas}
ResultadosErro(corpos) ==
    {[corpo |-> c, commitFalha |-> FALSE, forma |-> "vazio"] : c \in corpos}
ResultadoCommitErro == [corpo |-> "ok", commitFalha |-> TRUE, forma |-> "mov"]

\* every outcome of each query
ConsultasCiclo ==
    [k \in 1..NumConsultas |->
        ResultadosOk(IF k <= 2 THEN FormasSinteticas ELSE FormasAnaliticas)
        \cup ResultadosErro({"SQLAlchemyError", "OSError"})
        \cup {ResultadoCommitErro}]

\* every outcome of building and sending the report
FalhasCiclo ==
    [excel : BOOLEAN, corpo : BOOLEAN,
     dest : {"ok", "ausente", "vazio"}, ses : {"ok", "erro"}]

\* the outcomes drawn while the clock runs
ConsultasLaco ==
    [k \in 1..NumConsultas |->
        ResultadosOk(IF k <= 2 THEN {"vazio", "mov"} ELSE {"mov"})
        \cup ResultadosErro({"SQLAlchemyError"})]

FalhasLaco ==
    [excel : BOOLEAN, corpo : {FALSE}, dest : {"ok"}, ses : {"ok", "erro"}]

\* the agendas handed to obter_proximo_horario_agendado
DiasTeste == { << >>, <<0, 1, 2, 3, 4>>, <<0>>, <<6, 3>> }
HorariosTeste == {0, HorarioAgenda}
EntradasTeste == [dias : DiasTeste, horario : HorariosTeste]
AgendasTeste ==
    UNION {[1..n -> EntradasTeste] : n \in 1..MaxEntradas}

-----------------------------------------------------------------------------
(* State *)

HistNenhum == [dia |-> Nenhum, n |-> 0]

-----------------------------------------------------------------------------
(* src/sentinela_core.py, sheet names: lines 201-252.  A string is the     *)
(* sequence of its characters.                                             *)

\* line 201
InvalidSheetChars == {"[", "]", ":", "*", "?", "/", "\\", "'"}

\* the longest sheet name Excel takes: lines 212 and 227
MaxSheetLen == 31

\* s[:n]
prefixo(s, n) == SubSeq(s, 1, IF Len(s) < n THEN Len(s) ELSE n)

RECURSIVE rstrip(_)
\* str.rstrip()
rstrip(s) ==
    IF s # << >> /\ s[Len(s)] = " " THEN rstrip(SubSeq(s, 1, Len(s) - 1)) ELSE s

RECURSIVE lstrip(_)
\* str.lstrip()
lstrip(s) == IF s # << >> /\ Head(s) = " " THEN lstrip(Tail(s)) ELSE s

\* str.strip()
strip(s) == lstrip(rstrip(s))

Digitos == << "0", "1", "2", "3", "4", "5", "6", "7", "8", "9" >>

RECURSIVE str(_)
\* str(n) of a natural number: its decimal digits
str(n) ==
    IF n < 10 THEN << Digitos[n + 1] >>
    ELSE str(n \div 10) \o << Digitos[(n % 10) + 1] >>

Planilha == << "P", "l", "a", "n", "i", "l", "h", "a" >>

\* _safe_sheet_name_base, lines 204-212
safe_sheet_name_base(name) ==
    LET clean == strip([i \in 1..Len(name) |->
                          IF name[i] \in InvalidSheetChars THEN "-" ELSE name[i]])
    IN  prefixo(IF clean = << >> THEN Planilha ELSE clean, MaxSheetLen)

\* line 226: f" ({i})"
sufixo(i) == << " ", "(" >> \o str(i) \o << ")" >>

\* line 232
fallback(base, u) == prefixo(base, 27) \o sufixo(Cardinality(u) + 1)

\* lines 226-228: the candidate of iteration i
candidate(base, i) ==
    LET suffix == sufixo(i)
        lim == MaxSheetLen - Len(suffix)
    IN  rstrip(prefixo(base, lim)) \o suffix

\* lines 225-234: the first candidate of range(2, 200) not in `used`, or
\* the fallback when all of them are
procurar(base, u) ==
    LET livres == {i \in 2..199 : candidate(base, i) \notin u}
    IN  IF livres = {} THEN fallback(base, u)
        ELSE candidate(base, CHOOSE i \in livres : \A j \in livres : i <= j)

\* safe_sheet_name(name, used), lines 215-234, called with a set `used` as
\* line 247 does: the name returned and the set as the call leaves it
safe_sheet_name(name, u) ==
    LET base == safe_sheet_name_base(name)
        ret == IF base \notin u THEN base ELSE procurar(base, u)
    IN  [ret |-> ret, used |-> u \cup {ret}]

SheetNenhuma == [n |-> 0, name |-> << >>, ret |-> << >>, novo |-> TRUE]

-----------------------------------------------------------------------------
(* src/sentinela_core.py, subject and attachment name: lines 278-328.  A   *)
(* datetime is the record of its year, month and day.                      *)

\* calendar.isleap
isleap(year) == year % 4 = 0 /\ (year % 100 # 0 \/ year % 400 = 0)

\* the days of a month, as datetime counts them
days_in_month(year, month) ==
    IF month = 2 THEN (IF isleap(year) THEN 29 ELSE 28)
    ELSE IF month \in {4, 6, 9, 11} THEN 30
    ELSE 31

\* hoje.replace(day=1)
replace_day(d, day) == [year |-> d.year, month |-> d.month, day |-> day]

RECURSIVE menos_dias(_, _)
\* d - timedelta(days=n)
menos_dias(d, n) ==
    IF n = 0 THEN d
    ELSE menos_dias(
           IF d.day > 1 THEN [d EXCEPT !.day = d.day - 1]
           ELSE IF d.month > 1
           THEN [year |-> d.year, month |-> d.month - 1,
                 day |-> days_in_month(d.year, d.month - 1)]
           ELSE [year |-> d.year - 1, month |-> 12, day |-> 31],
           n - 1)

\* the reference date taken one day before hoje instead of before its day 1
ref_fechamento_sem_replace(d) == menos_dias(d, 1)

\* lines 285 and 312: ref = hoje.replace(day=1) - timedelta(days=1)
ref_fechamento(d) == menos_dias(replace_day(d, 1), 1)

\* lines 286-299 and 313-326
meses == << "Janeiro", "Fevereiro", "Março", "Abril", "Maio", "Junho",
            "Julho", "Agosto", "Setembro", "Outubro", "Novembro", "Dezembro" >>

\* "%02d" of a day or a month
dois_digitos(n) == IF n < 10 THEN << "0" >> \o str(n) ELSE str(n)

\* hoje.strftime("%d%m%Y"), line 310
strftime_dmY(d) == dois_digitos(d.day) \o dois_digitos(d.month) \o str(d.year)

\* build_subject_corte, lines 278-301 (the time of day of line 301 left out)
build_subject_corte(d, fechamento) ==
    IF fechamento
    THEN LET ref == ref_fechamento(d)
         IN  [texto |-> "Sentinela · Corte · Fechamento - ",
              mes |-> meses[ref.month], ano |-> ref.year, data |-> << >>]
    ELSE [texto |-> "Sentinela · Corte - ", mes |-> "", ano |-> Nenhum,
          data |-> dois_digitos(d.day) \o << "/" >> \o dois_digitos(d.month)
                   \o << "/" >> \o str(d.year)]

\* build_attachment_name, lines 304-328
build_attachment_name(d, fechamento) ==
    IF fechamento
    THEN LET ref == ref_fechamento(d)
         IN  [texto |-> "Sentinela Corte Fechamento ",
              mes |-> meses[ref.month], ano |-> ref.year,
              data |-> strftime_dmY(d), ext |-> ".xlsx"]
    ELSE [texto |-> "Sentinela Corte ", mes |-> "", ano |-> Nenhum,
          data |-> strftime_dmY(d), ext |-> ".xlsx"]

DataNenhuma == [year |-> Nenhum, month |-> Nenhum, day |-> Nenhum]

TitulosNenhum == [feito |-> FALSE]

\* nothing of sentinela_core.py has been called
core_parado ==
    /\ dfsAbas = << >>
    /\ used = {}
    /\ sheet = SheetNenhuma
    /\ hojeTitulo = DataNenhuma
    /\ is_fechamento = FALSE
    /\ titulos = TitulosNenhum

\* the script is not running
script_parado ==
    /\ agenda = Agenda
    /\ now = 0
    /\ pc = "parado"
    /\ modo = "nenhum"
    /\ proxima = Nenhum
    /\ wakeAt = Nenhum
    /\ late = 0
    /\ starts = 0
    /\ cpc = "fora"
    /\ df = << >>
    /\ qfalhou = << >>
    /\ sess = SessaoNenhuma
    /\ rel = RelNenhum
    /\ mail = MailNenhum
    /\ log = << >>
    /\ ultimo = {}
    /\ hist = HistNenhum

Init ==
    /\ core_parado
    /\ script_parado

\* line 580: verificar_corte_falta is entered
comecar_ciclo ==
    /\ pc' = "ciclo"
    /\ cpc' = "consultas"
    /\ df' = << >>
    /\ qfalhou' = << >>
    /\ sess' = SessaoNenhuma
    /\ rel' = RelNenhum
    /\ mail' = MailNenhum
    /\ log' = << "iniciando" >>
    /\ ultimo' = ultimo
    /\ late' = 0

ciclo_inalterado == UNCHANGED <<cpc, df, qfalhou, sess, rel, mail, log, ultimo>>

\* an exception reaches line 678: it is logged there, or it leaves
\* verificar_corte_falta and, no caller catching anything, ends the process
excecao_no_ciclo(exc, linhas) ==
    IF verificar_corte_falta_except(exc)
    THEN /\ log' = log \o linhas \o << "erro_ao_processar" >>
         /\ cpc' = "fim"
         /\ pc' = pc
    ELSE /\ log' = log \o linhas
         /\ cpc' = "fora"
         /\ pc' = "abortado"

-----------------------------------------------------------------------------
(* main, lines 722-746 *)

\* python main.py --modo manual: line 740
IniciarManual ==
    /\ pc = "parado"
    /\ starts < MaxStarts
    /\ starts' = starts + 1
    /\ modo' = "manual"
    /\ comecar_ciclo
    /\ UNCHANGED coreVars
    /\ UNCHANGED <<agenda, now, proxima, wakeAt, hist>>

\* python main.py --modo diario: line 743
IniciarDiario ==
    /\ pc = "parado"
    /\ starts < MaxStarts
    /\ starts' = starts + 1
    /\ modo' = "diario"
    /\ pc' = "laco"
    /\ late' = 0
    /\ proxima' = Nenhum
    /\ wakeAt' = Nenhum
    /\ ciclo_inalterado
    /\ UNCHANGED coreVars
    /\ UNCHANGED <<agenda, now, hist>>

-----------------------------------------------------------------------------
(* verificar_mudancas_diarias, lines 707-719 *)

\* line 712; with no next run, line 713 subtracts from None and the
\* TypeError ends the process
Agendar ==
    /\ pc = "laco"
    /\ proxima' = obter_proximo_horario_agendado(agenda, now)
    /\ pc' = IF proxima' = Nenhum THEN "abortado" ELSE "calculado"
    /\ late' = 0
    /\ ciclo_inalterado
    /\ UNCHANGED coreVars
    /\ UNCHANGED <<agenda, now, modo, wakeAt, starts, hist>>

\* the test of line 717 reversed: sleeps only when there is nothing to wait for
deve_dormir_invertido(tempo_espera) == tempo_espera < 0

\* line 717
deve_dormir(tempo_espera) == tempo_espera > 0

\* lines 713-719 when the target is reached already: no sleep, the cycle starts
\* lines 713-718 otherwise: time.sleep(tempo_espera)
Esperar ==
    /\ pc = "calculado"
    /\ LET tempo_espera == proxima - now
       IN  IF deve_dormir(tempo_espera)
           THEN /\ pc' = "dormindo"
                /\ wakeAt' = now + tempo_espera
                /\ late' = 0
                /\ ciclo_inalterado
           ELSE /\ wakeAt' = Nenhum
                /\ comecar_ciclo
    /\ UNCHANGED coreVars
    /\ UNCHANGED <<agenda, now, modo, proxima, starts, hist>>

\* time.sleep returns, not before the time asked for; line 719
Acordar ==
    /\ pc = "dormindo"
    /\ now >= wakeAt
    /\ wakeAt' = Nenhum
    /\ comecar_ciclo
    /\ UNCHANGED coreVars
    /\ UNCHANGED <<agenda, now, modo, proxima, starts, hist>>

-----------------------------------------------------------------------------
(* verificar_corte_falta, lines 576-679 *)

\* lines 583-586: the next of the four calls of executar_consulta_sql
ExecutarConsulta(resultados) ==
    /\ cpc = "consultas"
    /\ LET k == Len(df) + 1
       IN  \E r \in resultados[k] :
             LET q == executar_consulta_sql(r)
                 quem == IF q.exc = "nenhuma" THEN q.capturada
                         ELSE IF verificar_corte_falta_except(q.exc)
                         THEN "verificar_corte_falta" ELSE "ninguem"
             IN  /\ sess' = [corpo |-> q.sess.corpo, commit |-> q.sess.commit,
                              commitOk |-> q.sess.commitOk,
                              rollback |-> q.sess.rollback,
                              close |-> q.sess.close, exc |-> q.sess.exc,
                              capturada |-> quem]
                 /\ IF q.exc = "nenhuma"
                    THEN /\ df' = Append(df, q.forma)
                         /\ qfalhou' = Append(qfalhou, q.falhou)
                         /\ log' = log \o q.log
                         /\ cpc' = IF k = NumConsultas THEN "processar"
                                   ELSE "consultas"
                         /\ pc' = pc
                    ELSE /\ UNCHANGED <<df, qfalhou>>
                         /\ excecao_no_ciclo(q.exc, q.log)
    /\ UNCHANGED coreVars
    /\ UNCHANGED <<agenda, now, modo, proxima, wakeAt, late, starts, rel, mail,
                   ultimo, hist>>

\* a report handed to SES and accepted is a report delivered today
entregar(h, hoje) ==
    IF h.dia = hoje THEN [dia |-> hoje, n |-> h.n + 1]
    ELSE [dia |-> hoje, n |-> 1]

\* lines 588-679: the rest of the cycle
Processar(falhas) ==
    /\ cpc = "processar"
    /\ \E f \in falhas :
         LET p == processar_dados(df, f)
         IN  /\ rel' = p.rel
             /\ mail' = p.mail
             /\ hist' = IF p.mail.entregue THEN entregar(hist, date(now)) ELSE hist
             /\ IF p.exc = "nenhuma"
                THEN /\ log' = log \o p.log
                     /\ cpc' = "fim"
                     /\ pc' = pc
                ELSE excecao_no_ciclo(p.exc, p.log)
    /\ UNCHANGED coreVars
    /\ UNCHANGED <<agenda, now, modo, proxima, wakeAt, late, starts, df, qfalhou,
                   sess, ultimo>>

\* logging.error: lines 78, 573 and 679
LinhasDeErro == {"erro_consulta_sql", "erro_enviar_email", "erro_ao_processar"}

\* the lines of a log
linhas(l) == {l[i] : i \in 1..Len(l)}

\* main falling into the loop after the manual cycle (line 743 not under else)
apos_ciclo_sempre_laco(m) == IF m = "nenhum" THEN "parado" ELSE "laco"

\* where verificar_corte_falta returns to: the end of main (line 740 was the
\* last statement of its branch), or line 711 of the loop
apos_ciclo(m) == IF m = "manual" THEN "parado" ELSE "laco"

\* verificar_corte_falta returns: to line 711 of the loop, or to the end of main
Retornar ==
    /\ cpc = "fim"
    /\ cpc' = "fora"
    /\ df' = << >>
    /\ qfalhou' = << >>
    /\ sess' = SessaoNenhuma
    /\ rel' = RelNenhum
    /\ mail' = MailNenhum
    /\ log' = << >>
    /\ ultimo' = linhas(log) \cap LinhasDeErro
    /\ pc' = apos_ciclo(modo)
    /\ late' = 0
    /\ UNCHANGED coreVars
    /\ UNCHANGED <<agenda, now, modo, proxima, wakeAt, starts, hist>>

-----------------------------------------------------------------------------
(* The environment: the clock, and the operator who stops the script *)

\* An hour passes.  A sleeping process lets time pass until its wake-up; a
\* wake-up, and a step of the loop between two cycles, is late by MaxLate
\* hours at most.  The hours a cycle takes are those that pass after it.
TickAte(horizonte) ==
    /\ now + 1 < horizonte
    /\ \/ /\ pc \in {"parado", "abortado"}
          /\ late' = late
       \/ /\ pc = "dormindo"
          /\ now < wakeAt
          /\ late' = late
       \/ /\ \/ pc = "dormindo" /\ now >= wakeAt
             \/ pc \in {"laco", "calculado"}
          /\ late < MaxLate
          /\ late' = late + 1
    /\ now' = now + 1
    /\ ciclo_inalterado
    /\ UNCHANGED coreVars
    /\ UNCHANGED <<agenda, pc, modo, proxima, wakeAt, starts, hist>>

\* the clock of the script as it is run
Tick == TickAte(Horizonte)

\* the process is killed between two cycles (there is no other way out of
\* the loop)
Encerrar ==
    /\ pc \in {"laco", "calculado", "dormindo"}
    /\ pc' = "parado"
    /\ late' = 0
    /\ ciclo_inalterado
    /\ UNCHANGED coreVars
    /\ UNCHANGED <<agenda, now, modo, proxima, wakeAt, starts, hist>>

-----------------------------------------------------------------------------
(* Specifications *)

\* the script as it is run: both modes, the loop, the clock, restarts
Next ==
    \/ IniciarManual
    \/ IniciarDiario
    \/ Agendar
    \/ Esperar
    \/ Acordar
    \/ ExecutarConsulta(ConsultasLaco)
    \/ Processar(FalhasLaco)
    \/ Retornar
    \/ Tick
    \/ Encerrar

Spec == Init /\ [][Next]_vars

\* manual runs of the cycle, every outcome of every step drawn
NextCiclo ==
    \/ IniciarManual
    \/ ExecutarConsulta(ConsultasCiclo)
    \/ Processar(FalhasCiclo)
    \/ Retornar

SpecCiclo == Init /\ [][NextCiclo]_vars

\* the next-run computation on every agenda and every hour of a week
InitProx ==
    /\ core_parado
    /\ agenda \in AgendasTeste
    /\ now \in 0..(timedelta(DaysPerWeek) - 1)
    /\ pc = "laco"
    /\ modo = "diario"
    /\ proxima = Nenhum
    /\ wakeAt = Nenhum
    /\ late = 0
    /\ starts = 1
    /\ cpc = "fora"
    /\ df = << >>
    /\ qfalhou = << >>
    /\ sess = SessaoNenhuma
    /\ rel = RelNenhum
    /\ mail = MailNenhum
    /\ log = << >>
    /\ ultimo = {}
    /\ hist = HistNenhum

NextProx == Agendar

SpecProx == InitProx /\ [][NextProx]_vars

\* every query returns rows, every step of the report succeeds
ConsultasSemFalha == [k \in 1..NumConsultas |-> ResultadosOk({"mov"})]

FalhasNenhuma == [excel : {FALSE}, corpo : {FALSE}, dest : {"ok"}, ses : {"ok"}]

\* the two modes of main, launched at any hour, stopped and launched again,
\* the cycles going well
NextModos ==
    \/ IniciarManual
    \/ IniciarDiario
    \/ Agendar
    \/ Esperar
    \/ Acordar
    \/ ExecutarConsulta(ConsultasSemFalha)
    \/ Processar(FalhasNenhuma)
    \/ Retornar
    \/ Tick
    \/ Encerrar

SpecModos == Init /\ [][NextModos]_vars

\* the loop left to run for more than a week: scheduled mode only, nobody
\* stops the script, every query returns rows and every send succeeds.  A
\* running process takes its next step and the clock advances: weak fairness
\* of every step.
HorizonteSemana == timedelta(DaysPerWeek + MaxDias)

TickSemana == TickAte(HorizonteSemana)

NextSemana ==
    \/ IniciarDiario
    \/ Agendar
    \/ Esperar
    \/ Acordar
    \/ ExecutarConsulta(ConsultasSemFalha)
    \/ Processar(FalhasNenhuma)
    \/ Retornar
    \/ TickSemana

SpecSemana ==
    /\ Init
    /\ [][NextSemana]_vars
    /\ WF_vars(Agendar)
    /\ WF_vars(Esperar)
    /\ WF_vars(Acordar)
    /\ WF_vars(ExecutarConsulta(ConsultasSemFalha))
    /\ WF_vars(Processar(FalhasNenhuma))
    /\ WF_vars(Retornar)
    /\ WF_vars(TickSemana)

-----------------------------------------------------------------------------
(* to_xlsx_bytes_multiplas_abas, src/sentinela_core.py lines 237-252 *)

MaxAbas == 201      \* sheets of a workbook

\* n times the character c
repetir(c, n) == [i \in 1..n |-> c]

\* a key longer than a sheet name may be: 31 times "A", then the number k
NomeLongo(k) == repetir("A", MaxSheetLen) \o str(k)

\* a key of eight brackets, the binary digits of k: all of them are cleaned
\* to the same eight dashes
NomeColchetes(k) ==
    [i \in 1..8 |-> IF (k \div (2 ^ (i - 1))) % 2 = 0 THEN "[" ELSE "]"]

\* a key that reads as a numbered copy of the eight dashes does
NomeNumerado(k) == repetir("-", 8) \o sufixo(k)

\* a workbook of ordinary names: blank, empty, with characters Excel refuses,
\* with spaces around, cleaned to the same name or not
DfsComuns ==
    << << " ", " " >>, << >>, << "a", "/", "b" >>, << "a", "-", "b" >>,
       << " ", "a", ":", "b", " " >>, << "a", "b" >>, << "'", "a", "b", "'" >> >>

\* the dicts handed to to_xlsx_bytes_multiplas_abas: their keys, in order
DfsTeste ==
    { DfsComuns,
      [k \in 1..MaxAbas |-> NomeLongo(k)],
      << NomeNumerado(MaxAbas) >> \o [k \in 1..(MaxAbas - 1) |-> NomeColchetes(k)] }

InitAbas ==
    /\ script_parado
    /\ dfsAbas \in DfsTeste
    /\ used = {}
    /\ sheet = SheetNenhuma
    /\ hojeTitulo = DataNenhuma
    /\ is_fechamento = FALSE
    /\ titulos = TitulosNenhum

\* lines 246-248: the next key of dfs gets its sheet
EscreverAba ==
    /\ dfsAbas # << >>
    /\ LET raw_name == Head(dfsAbas)
           r == safe_sheet_name(raw_name, used)
       IN  /\ used' = r.used
           /\ sheet' = [n |-> sheet.n + 1, name |-> raw_name, ret |-> r.ret,
                        novo |-> r.ret \notin used]
    /\ dfsAbas' = Tail(dfsAbas)
    /\ UNCHANGED <<hojeTitulo, is_fechamento, titulos>>
    /\ UNCHANGED scriptVars

NextAbas == EscreverAba

SpecAbas == InitAbas /\ [][NextAbas]_vars

-----------------------------------------------------------------------------
(* build_subject_corte and build_attachment_name on every day of some years *)

PrimeiroAno == 2023 \* first year of the dates drawn
MaxAnos == 2        \* years of the dates drawn

DatasTeste ==
    UNION { { [year |-> y, month |-> mo, day |-> d] :
                d \in 1..days_in_month(y, mo) } :
            y \in PrimeiroAno..(PrimeiroAno + MaxAnos - 1), mo \in 1..12 }

InitTitulos ==
    /\ script_parado
    /\ dfsAbas = << >>
    /\ used = {}
    /\ sheet = SheetNenhuma
    /\ hojeTitulo \in DatasTeste
    /\ is_fechamento \in BOOLEAN
    /\ titulos = TitulosNenhum

\* the caller builds the subject and the attachment name of one message
Titular ==
    /\ ~titulos.feito
    /\ titulos' = [feito |-> TRUE,
                   assunto |-> build_subject_corte(hojeTitulo, is_fechamento),
                   anexo |-> build_attachment_name(hojeTitulo, is_fechamento)]
    /\ UNCHANGED <<dfsAbas, used, sheet, hojeTitulo, is_fechamento>>
    /\ UNCHANGED scriptVars

NextTitulos == Titular

SpecTitulos == InitTitulos /\ [][NextTitulos]_vars

-----------------------------------------------------------------------------
(* Properties of the next-run computation, under SpecProx *)

\* t falls on a weekday and a time of day listed together in an entry of ag
listado(ag, t) ==
    \E k \in 1..Len(ag) : \E i \in 1..Len(ag[k].dias) :
        /\ weekday(t) = ag[k].dias[i]
        /\ timeOfDay(t) = ag[k].horario

\* some entry of ag lists a weekday
tem_dia(ag) == \E k \in 1..Len(ag) : Len(ag[k].dias) > 0

\* the computation of line 712 has been made
calculou == pc \in {"calculado", "abortado"}

\* C1, as stated: for every now and every agenda of one entry or more, the
\* timestamp returned is strictly after now and falls on a weekday and a time
\* of day listed in an entry.
C1_Original ==
    calculou => (proxima > now /\ listado(agenda, proxima))

\* C1, amended: for every now and every agenda in which some entry lists a
\* weekday, the timestamp returned is strictly after now and falls on a
\* weekday and a time of day listed in an entry; an agenda whose entries list
\* no weekday yields no timestamp at all (None).
C1_ProximoDepoisDeAgora ==
    calculou =>
        IF tem_dia(agenda)
        THEN proxima # Nenhum /\ proxima > now /\ listado(agenda, proxima)
        ELSE proxima = Nenhum

\* now is itself a slot of a two-entry agenda and a later timestamp is returned
C1_Witness ==
    /\ pc = "calculado"
    /\ Len(agenda) = 2
    /\ listado(agenda, now)
    /\ proxima > now

\* C2: when now is exactly a scheduled slot, that slot is not returned (its
\* next occurrence is a week later); with the agenda of the script and now =
\* Monday 08:00 the result is Tuesday 08:00 of the same week.
C2_SlotExatoRolaParaFrente ==
    calculou =>
        /\ listado(agenda, now) =>
              /\ proxima # now
              /\ proxima <= now + timedelta(DaysPerWeek)
        /\ (agenda = Agenda /\ now = combine(0, HorarioAgenda)) =>
              proxima = combine(1, HorarioAgenda)

\* the agenda of the script, Monday 08:00 exactly, Tuesday 08:00 returned
C2_Witness ==
    /\ pc = "calculado"
    /\ agenda = Agenda
    /\ weekday(now) = 0 /\ timeOfDay(now) = HorarioAgenda
    /\ weekday(proxima) = 1 /\ timeOfDay(proxima) = HorarioAgenda
    /\ date(proxima) = date(now) + 1

\* C3: the timestamp returned is the earliest: no (entry, weekday) pair of
\* the agenda has an occurrence strictly after now and strictly before it.
C3_MaisCedo ==
    calculou =>
        \A t \in (now + 1)..(proxima - 1) : ~listado(agenda, t)

\* two entries qualify, the result comes from the second one and the first
\* one has its own occurrence later in the week
C3_Witness ==
    /\ pc = "calculado"
    /\ Len(agenda) = 2
    /\ ~listado(<< agenda[1] >>, proxima)
    /\ listado(<< agenda[2] >>, proxima)
    /\ \E t \in (proxima + 1)..(now + timedelta(DaysPerWeek)) :
            listado(<< agenda[1] >>, t)

-----------------------------------------------------------------------------
(* Properties of the script as it is run, under Spec *)

\* C4: once a report has been sent on a calendar day, no later run of the
\* cycle on that day (loop iteration, manual run, run after a restart) sends
\* a second one: no day sees two reports delivered.
C4_UmEnvioPorDia == hist.n <= 1

-----------------------------------------------------------------------------
(* Properties of one cycle, under SpecCiclo *)

\* the cycle has run to its last line or to its except clause
terminou == cpc = "fim"

\* rows that show no movement: no rows at all, or totals all zero
sem_movimento(forma) == forma \in {"sem_colunas", "vazio", "zero"}

nada_enviado == ~rel.excel /\ ~rel.corpo /\ mail.chamadas = 0

alguma_consulta_falhou ==
    \/ \E k \in 1..Len(qfalhou) : qfalhou[k]
    \/ sess.exc # "nenhuma"

C7_EnvioFalhoNaoViraSucesso ==
    (terminou /\ mail.falhou) => "email_enviado_com_sucesso" \notin linhas(log)

falta_campo == df[1] = "incompleto" \/ df[2] = "incompleto"

C14_SemDestinatarioNadaEntregueAoTransporte ==
    (mail.chamadas = 1 /\ mail.dest \in {"ausente", "vazio"}) =>
        /\ mail.ses = 0
        /\ "erro_enviar_email" \in linhas(log)
        /\ pc = "ciclo"
        /\ "erro_ao_processar" \notin linhas(log)

\* the cycle ended with no exception reaching its except clause
sem_excecao_no_ciclo == terminou /\ "erro_ao_processar" \notin linhas(log)

\* C18: a cycle calls enviar_email once at most; a cycle in which no step
\* raised to verificar_corte_falta called it exactly once when the yesterday
\* result or the month result has rows, and not at all when both are empty.
C18_UmaChamadaDeEnvioPorCiclo ==
    /\ mail.chamadas \in {0, 1}
    /\ (sem_excecao_no_ciclo /\ Len(df) = NumConsultas) =>
          mail.chamadas = (IF empty(df[1]) /\ empty(df[2]) THEN 0 ELSE 1)

\* yesterday is empty, the month has rows: the cycle called enviar_email once
C18_Witness ==
    /\ sem_excecao_no_ciclo
    /\ Len(df) = NumConsultas
    /\ df[1] = "vazio"
    /\ df[2] = "mov"
    /\ mail.chamadas = 1
    /\ mail.entregue

\* a transaction scope has been entered and left
escopo_encerrado == sess.corpo # "nenhum"

\* C19, as stated: on every way out of session_scope the session is closed
\* exactly once; commit is called only when the body raised nothing, rollback
\* only when an exception was raised, never both in one scope; an exception
\* of the body leaves the transaction rolled back or uncommitted.
C19_Original ==
    escopo_encerrado =>
        /\ sess.close = 1
        /\ (sess.commit = 1) => sess.corpo = "ok"
        /\ (sess.rollback = 1) => sess.exc # "nenhuma"
        /\ ~(sess.commit = 1 /\ sess.rollback = 1)
        /\ (sess.corpo \in Excecoes) => (sess.commit = 0 /\ ~sess.commitOk)

\* C19, amended: the same, except that commit and rollback are both called
\* in one case, when the body raised nothing and commit itself raised a
\* database exception: the failed commit is rolled back.  Rollback is called
\* for database exceptions only.
C19_EscopoFechaUmaVez ==
    escopo_encerrado =>
        /\ sess.close = 1
        /\ (sess.commit = 1) <=> (sess.corpo = "ok")
        /\ (sess.rollback = 1) <=> (sess.exc = "SQLAlchemyError")
        /\ (sess.commit = 1 /\ sess.rollback = 1) <=>
              (sess.corpo = "ok" /\ sess.exc = "SQLAlchemyError")
        /\ (sess.commit = 1 /\ sess.rollback = 1) => ~sess.commitOk
        /\ (sess.corpo \in Excecoes) => (sess.commit = 0 /\ ~sess.commitOk)

\* the body of a query's scope raised nothing and its commit failed: the
\* scope committed, rolled back and closed
C19_Witness ==
    /\ sess.corpo = "ok"
    /\ sess.exc = "SQLAlchemyError"
    /\ sess.commit = 1
    /\ sess.rollback = 1
    /\ sess.close = 1

-----------------------------------------------------------------------------
(* Properties of the scheduling loop, under Spec *)

\* C9: in scheduled mode no failure inside a cycle leaves the loop: the
\* process is never ended by a cycle, and a cycle that ended, however it
\* ended, is still inside the loop, to which it returns.
C9_LacoNuncaAborta ==
    (modo = "diario") =>
        /\ pc # "abortado"
        /\ terminou => pc = "ciclo"

\* a cycle of the loop failed at its except clause and the loop has computed
\* its next run
C9_Witness ==
    /\ modo = "diario"
    /\ pc = "calculado"
    /\ "erro_ao_processar" \in ultimo
    /\ proxima > now

\* the agenda lists the weekday of t, and t is not before its time of day
em_dia_e_hora(ag, t) ==
    \E k \in 1..Len(ag) : \E i \in 1..Len(ag[k].dias) :
        /\ weekday(t) = ag[k].dias[i]
        /\ timeOfDay(t) >= ag[k].horario

\* C10: in scheduled mode a cycle starts at or after the timestamp computed
\* for its iteration, on an agenda weekday at or after the agenda time of
\* day; while the target is ahead the process sleeps and runs no cycle.
C10_NenhumCicloAntesDoAlvo ==
    (modo = "diario") =>
        /\ (pc = "ciclo") =>
              /\ proxima # Nenhum
              /\ now >= proxima
              /\ date(now) = date(proxima)
              /\ em_dia_e_hora(agenda, now)
        /\ (pc = "dormindo" /\ now < proxima) => cpc = "fora"

\* the loop slept until 08:00 and its cycle is running at 08:00 sharp
C10_Witness ==
    /\ modo = "diario"
    /\ pc = "ciclo"
    /\ now = proxima
    /\ timeOfDay(now) = HorarioAgenda
    /\ starts = 1

-----------------------------------------------------------------------------
(* Properties of main, under SpecModos *)

\* C11: in manual mode the process runs its one cycle at once, from its
\* launch, at whatever hour and weekday, and ends when the cycle returns,
\* never entering the scheduling loop; in scheduled mode it enters the loop,
\* and a cycle starts only from the loop's wait, at or after a slot of the
\* agenda computed before.
C11_ManualUmCicloDiarioEspera ==
    /\ [](modo = "manual" => pc \in {"ciclo", "parado"})
    /\ [][(pc # "ciclo" /\ pc' = "ciclo" /\ modo' = "manual") =>
              (pc = "parado" /\ starts' = starts + 1 /\ now' = now)]_vars
    /\ [][(modo = "manual" /\ pc = "ciclo" /\ pc' # "ciclo") =>
              (pc' = "parado" /\ starts' = starts)]_vars
    /\ [][(modo' = "diario" /\ pc = "parado" /\ pc' # "parado") =>
              pc' = "laco"]_vars
    /\ [][(pc # "ciclo" /\ pc' = "ciclo" /\ modo' = "diario") =>
              /\ pc \in {"calculado", "dormindo"}
              /\ proxima # Nenhum
              /\ listado(agenda, proxima)
              /\ now >= proxima]_vars

\* a manual cycle is running on a Tuesday before 08:00, the second launch of
\* the script
C11_Witness ==
    /\ modo = "manual"
    /\ pc = "ciclo"
    /\ weekday(now) = 1
    /\ timeOfDay(now) < HorarioAgenda
    /\ starts = 2

-----------------------------------------------------------------------------
(* Properties of the loop over more than a week, under SpecSemana *)

\* the days of the model's calendar
DiasDoCalendario == 0..(date(HorizonteSemana) - 1)

\* the loop is waiting for its next run
aguardando == modo = "diario" /\ pc \in {"calculado", "dormindo"}

calcula == pc = "laco" /\ pc' = "calculado"

\* no slot of the agenda strictly between the instants a and b
nenhum_slot_entre(a, b) == \A t \in (a + 1)..(b - 1) : ~listado(agenda, t)

\* C20, as stated: with cycles shorter than the gap between slots, every
\* slot after the start of the process gets its cycle.  The process entered
\* the loop `late` hours before it reads the clock: no slot after that
\* instant is left before the first run computed.
C20_Original ==
    [][(calcula /\ proxima = Nenhum) =>
           nenhum_slot_entre(now - late, proxima')]_vars

\* C20, amended: with cycles shorter than the gap between slots, every slot
\* strictly after the loop's first reading of the clock gets one cycle and
\* one only: each run computed is the first slot after the reading, the run
\* computed after a cycle is the first slot after that of the cycle, a cycle
\* starts at or after the run computed and returns to the loop, and a run
\* computed is followed by its cycle.
C20_CadaSlotUmCiclo ==
    /\ [][calcula =>
              /\ proxima' > now
              /\ listado(agenda, proxima')
              /\ nenhum_slot_entre(now, proxima')]_vars
    /\ [][(calcula /\ proxima # Nenhum) =>
              /\ proxima' > proxima
              /\ nenhum_slot_entre(proxima, proxima')]_vars
    /\ [][(pc # "ciclo" /\ pc' = "ciclo") =>
              (aguardando /\ now >= proxima /\ proxima' = proxima)]_vars
    /\ [][(pc = "ciclo" /\ pc' # "ciclo") =>
              (pc' = "laco" /\ proxima' = proxima)]_vars
    /\ (aguardando /\ proxima < HorizonteSemana) ~> (pc = "ciclo")

\* the cycle of a slot is running at 08:00 sharp, the cycle of the slot of
\* the day before having delivered its report
C20_Witness ==
    /\ modo = "diario"
    /\ pc = "ciclo"
    /\ now = proxima
    /\ hist.n = 1
    /\ hist.dia = date(now) - 1

-----------------------------------------------------------------------------
(* Properties of the sheet names, under SpecAbas *)

\* C15: whatever the name and the set `used`, the set holding the base and
\* all its numbered variants included, the name safe_sheet_name returns has
\* 31 characters at most.
C15_NomeDeAbaAte31 ==
    (sheet.n > 0) => Len(sheet.ret) <= MaxSheetLen

\* C16: over a sequence of calls sharing one set `used`, every name returned
\* was not in the set before its call and is in it after, so that the calls
\* made so far returned as many distinct names: one sheet for each key.
C16_NomeDeAbaUnico ==
    (sheet.n > 0) =>
        /\ sheet.novo
        /\ sheet.ret \in used
        /\ Cardinality(used) = sheet.n

-----------------------------------------------------------------------------
(* Properties of the subject and the attachment name, under SpecTitulos *)

\* the month before month mo, and the year it is in
mes_anterior(mo) == IF mo = 1 THEN 12 ELSE mo - 1
ano_do_mes_anterior(y, mo) == IF mo = 1 THEN y - 1 ELSE y

\* C17: for a closing (is_fechamento) on any date hoje, the subject and the
\* attachment name both name the month before hoje's month, of the year
\* before when hoje is in January, whatever the length of that month, and
\* the attachment name carries the date of hoje itself.
C17_FechamentoNomeiaMesAnterior ==
    (titulos.feito /\ is_fechamento) =>
        /\ titulos.assunto.mes = meses[mes_anterior(hojeTitulo.month)]
        /\ titulos.assunto.ano =
              ano_do_mes_anterior(hojeTitulo.year, hojeTitulo.month)
        /\ titulos.anexo.mes = titulos.assunto.mes
        /\ titulos.anexo.ano = titulos.assunto.ano
        /\ titulos.anexo.data = strftime_dmY(hojeTitulo)

\* the closing of 2024-03-01 is named after February 2024
C17_Witness ==
    /\ titulos.feito
    /\ is_fechamento
    /\ hojeTitulo = [year |-> 2024, month |-> 3, day |-> 1]
    /\ titulos.assunto.mes = "Fevereiro"
    /\ titulos.assunto.ano = 2024
    /\ titulos.anexo.mes = "Fevereiro"
    /\ titulos.anexo.ano = 2024

=============================================================================
